---- MODULE Spec2Model ----
(***************************************************************************)
(* Model of the laptop_power_saver sampling engine (src/lps/sampler.py)   *)
(* and of the SQLite store operations it calls (src/lps/db.py).           *)
(*                                                                         *)
(* Units.  Monotonic time, dt and CPU seconds are counted in quarters of  *)
(* a second (0.25 s = 1), so the clamp bounds 0.25 s and 5.0 s are 1 and  *)
(* 20.  Wall-clock time (time.time(), the ts columns, retention) is       *)
(* counted in whole seconds.                                               *)
(*                                                                         *)
(* The store has two copies: db is what is durably committed (what any    *)
(* other connection reads), conn is what the sampler's own connection     *)
(* sees, which includes the statements of its open transaction.           *)
(* Python's sqlite3 opens a transaction implicitly before INSERT, UPDATE  *)
(* and DELETE; commit() copies conn to db, rollback() copies db to conn.  *)
(***************************************************************************)
EXTENDS Integers, Sequences, FiniteSets, TLC

\* ---------------------------------------------------------------- bounds
MaxPid == 2        \* pids the operating system hands out: 1..MaxPid
MaxCTime == 2      \* creation times: 1..MaxCTime
MaxTicks == 4      \* calls of tick() a run makes before the model stops
MaxFailures == 2   \* injected exceptions per run
MaxLen == 4        \* characters of a duration string given to lps
MaxSpecLen == 3    \* characters of a --since or --until string

\* ------------------------------------------------------ program constants
None == -1            \* Python None for an optional number or string
EmptyStr == 0         \* the empty string "" (strings are numbered)
DtLo == 1             \* clamp(dt, 0.25, 5.0): 0.25 s
DtHi == 20            \* clamp(dt, 0.25, 5.0): 5.0 s
CleanupPeriod == 60   \* prune at most once per 60.0 s of wall-clock time
MissingLimit == 2     \* cnt >= 2 ends a process

VARIABLES
    \* --- store
    db,               \* committed tables [process, sample]
    conn,             \* the sampler connection's view of the tables
    in_transaction,   \* conn.in_transaction
    \* --- Sampler fields
    interval_s, retention_s, active_threshold, cpu_count,
    prev_cpu,         \* _prev_cpu: ProcKey -> cumulative CPU
    procid,           \* _procid: ProcKey -> process.id
    missing_ticks,    \* _missing_ticks: ProcKey -> count
    last_mono,        \* _last_mono (None before the first completed tick)
    last_cleanup_ts,  \* _last_cleanup_ts
    \* --- run_loop locals
    pc, base, tick_idx, target, now, sleep_s,
    \* --- tick locals
    mono_now, ts_now, dt, rows, seen, enum,
    \* --- environment
    mono,             \* time.monotonic()
    wall,             \* time.time()
    env,              \* the sets the environment's answers are drawn from
    failures,         \* exceptions injected so far
    \* --- the lps command line (src/cli.py)
    args,             \* the strings given to the command being run
    out,              \* what the command's argument parsing gave
    \* --- history (not read by any action's guard or effect on the program)
    h

store_vars == <<db, conn, in_transaction>>
param_vars == <<interval_s, retention_s, active_threshold, cpu_count>>
cli_vars == <<args, out>>
map_vars == <<prev_cpu, procid, missing_ticks>>
loop_vars == <<base, tick_idx, target, now, sleep_s>>
tick_vars == <<mono_now, ts_now, dt, rows, seen, enum>>
vars == <<db, conn, in_transaction, interval_s, retention_s, active_threshold,
          cpu_count, prev_cpu, procid, missing_ticks, last_mono,
          last_cleanup_ts, pc, base, tick_idx, target, now, sleep_s,
          mono_now, ts_now, dt, rows, seen, enum, mono, wall, env,
          failures, args, out, h>>

\* ------------------------------------------------------------- utilities
Pids == 1..MaxPid
CTimes == 1..MaxCTime
Keys == Pids \X CTimes

EmptyMap == [k \in {} |-> 0]
Put(f, k, v) == [x \in DOMAIN f \cup {k} |-> IF x = k THEN v ELSE f[x]]
DropAll(f, S) == [x \in DOMAIN f \ S |-> f[x]]
Get(f, k, default) == IF k \in DOMAIN f THEN f[k] ELSE default

Max2(a, b) == IF a >= b THEN a ELSE b
MaxOf(S) == CHOOSE m \in S : \A x \in S : x <= m

\* (mutant) the upper bound is not applied
clamp_below(v, lo, hi) == IF v < lo THEN lo ELSE v

\* lps.utils.clamp
clamp(v, lo, hi) == IF v < lo THEN lo ELSE IF v > hi THEN hi ELSE v

\* sampler._safe_str: None and "" become None
safe_str(v) == IF v = None \/ v = EmptyStr THEN None ELSE v

\* (mutant) the system time is left out of the total
cpu_user_seconds(cpu_times) ==
    IF cpu_times.user = None \/ cpu_times.system = None
    THEN None
    ELSE cpu_times.user

\* sampler._cpu_total_seconds: None unless both user and system are there
cpu_total_seconds(cpu_times) ==
    IF cpu_times.user = None \/ cpu_times.system = None
    THEN None
    ELSE cpu_times.user + cpu_times.system


\* ---------------------------------------------- strings: lps/utils.py
\* A string is the sequence of its characters.
NoArgs == <<>>                  \* lps run is past its argument parsing
NoResult == [status |-> "none"] \* nothing parsed yet
ValueError == [status |-> "ValueError"]
Returned(v) == [status |-> "returned", value |-> v]

\* the character classes of _DURATION_RE: \s, \d and [smhdSMHD]
Whitespace == {" ", "\t", "\n", "\r"}
DigitSeq == <<"0", "1", "2", "3", "4", "5", "6", "7", "8", "9">>
DigitChars == {DigitSeq[i] : i \in 1..Len(DigitSeq)}
UnitChars == {"s", "m", "h", "d", "S", "M", "H", "D"}
DigitValue(c) == (CHOOSE i \in 1..Len(DigitSeq) : DigitSeq[i] = c) - 1

\* the first position at or after i whose character is not in class
RECURSIVE SkipWhile(_, _, _)
SkipWhile(str, i, class) ==
    IF i <= Len(str) /\ str[i] \in class
    THEN SkipWhile(str, i + 1, class)
    ELSE i

\* _DURATION_RE.match(spec): ^\s*(\d+(?:\.\d+)?)\s*([smhdSMHD])\s*$
\* a: start of group 1; b: end of \d+; c: end of group 1; d: the unit
DURATION_RE_match(spec) ==
    LET a == SkipWhile(spec, 1, Whitespace)
        b == SkipWhile(spec, a, DigitChars)
        frac == IF b <= Len(spec) /\ spec[b] = "."
                THEN SkipWhile(spec, b + 1, DigitChars)
                ELSE b
        c == IF frac > b + 1 THEN frac ELSE b
        d == SkipWhile(spec, c, Whitespace)
    IN IF /\ b > a
          /\ d <= Len(spec)
          /\ spec[d] \in UnitChars
          /\ SkipWhile(spec, d + 1, Whitespace) = Len(spec) + 1
       THEN [matched |-> TRUE, number |-> SubSeq(spec, a, c - 1), unit |-> spec[d]]
       ELSE [matched |-> FALSE]

\* numbers are fractions num/den; den = 0 is the float nan
NaN == [num |-> 0, den |-> 0]
RECURSIVE Pow10(_)
Pow10(n) == IF n = 0 THEN 1 ELSE 10 * Pow10(n - 1)
RECURSIVE NatOf(_)
NatOf(digits) ==
    IF digits = <<>> THEN 0
    ELSE 10 * NatOf(SubSeq(digits, 1, Len(digits) - 1))
         + DigitValue(digits[Len(digits)])

\* float(text) for text that matched \d+(?:\.\d+)?
float_of_decimal(text) ==
    LET dot == SkipWhile(text, 1, DigitChars)
    IN IF dot > Len(text)
       THEN [num |-> NatOf(text), den |-> 1]
       ELSE [num |-> NatOf(SubSeq(text, 1, dot - 1)
                           \o SubSeq(text, dot + 1, Len(text))),
             den |-> Pow10(Len(text) - dot)]

\* str.lower() of one character
lower(c) ==
    CASE c = "S" -> "s" [] c = "M" -> "m" [] c = "H" -> "h" [] c = "D" -> "d"
      [] c = "N" -> "n" [] c = "O" -> "o" [] c = "W" -> "w" [] c = "A" -> "a"
      [] c = "B" -> "b" [] OTHER -> c

\* (mutant) an hour counts as a minute
unit_factor_hour_as_minute(unit) ==
    CASE unit = "s" -> 1 [] unit = "m" -> 60 [] unit = "h" -> 60
      [] unit = "d" -> 86400

\* lines 28-35: the seconds in one unit
unit_factor(unit) ==
    CASE unit = "s" -> 1 [] unit = "m" -> 60 [] unit = "h" -> 3600
      [] unit = "d" -> 86400

\* lps.utils.parse_duration_to_seconds
parse_duration_to_seconds(spec) ==
    LET m == DURATION_RE_match(spec)
    IN IF ~m.matched THEN ValueError
       ELSE LET val == float_of_decimal(m.number)
            IN Returned([num |-> val.num * unit_factor(lower(m.unit)),
                         den |-> val.den])

\* float arithmetic on fractions; every comparison with nan is false
Minus(x, y) ==
    IF x.den = 0 \/ y.den = 0 THEN NaN
    ELSE [num |-> x.num * y.den - y.num * x.den, den |-> x.den * y.den]
float_lt(x, y) == x.den # 0 /\ y.den # 0 /\ x.num * y.den < y.num * x.den

\* str.strip() and str.lower()
RECURSIVE SkipBack(_, _, _)
SkipBack(str, i, class) ==
    IF i >= 1 /\ str[i] \in class THEN SkipBack(str, i - 1, class) ELSE i
strip(str) ==
    SubSeq(str, SkipWhile(str, 1, Whitespace), SkipBack(str, Len(str), Whitespace))
lower_str(str) == [i \in 1..Len(str) |-> lower(str[i])]

\* float(s) of a stripped, lower-case string: an optional sign, then nan,
\* or digits with an optional point (at least one digit).  Exponents,
\* underscores, inf and infinity need characters no string here has.
python_float(s) ==
    LET signed == s # <<>> /\ s[1] \in {"+", "-"}
        body == IF signed THEN Tail(s) ELSE s
        b == SkipWhile(body, 1, DigitChars)
        c == IF b <= Len(body) /\ body[b] = "."
             THEN SkipWhile(body, b + 1, DigitChars)
             ELSE b
        digits == SubSeq(body, 1, b - 1) \o SubSeq(body, b + 1, c - 1)
        places == IF c > b THEN c - b - 1 ELSE 0
    IN IF body = <<"n", "a", "n">> THEN Returned(NaN)
       ELSE IF c = Len(body) + 1 /\ digits # <<>>
       THEN Returned([num |-> IF signed /\ s[1] = "-" THEN 0 - NatOf(digits)
                              ELSE NatOf(digits),
                      den |-> Pow10(places)])
       ELSE ValueError

\* lines 66-79: strptime with the three formats, then fromisoformat.  The
\* shortest string either takes has 7 characters ("2025W01"); the strings
\* given here are shorter, and every attempt raises.
iso_timestamp(spec) == ValueError

\* lps.utils.parse_time_point
parse_time_point(spec, now_ts) ==
    LET s == lower_str(strip(spec))
        dur == parse_duration_to_seconds(s)
        epoch == python_float(s)
    IN IF s = <<"n", "o", "w">> THEN Returned(now_ts)
       ELSE IF dur # ValueError THEN Returned(Minus(now_ts, dur.value))
       ELSE IF epoch # ValueError THEN epoch
       ELSE iso_timestamp(spec)

\* now - 86400.0 and now: the defaults of lines 94-95
DaySeconds == [num |-> 86400, den |-> 1]

\* lps.utils.parse_since_until; an empty spec is falsy
parse_since_until(since_spec, until_spec, now_ts) ==
    LET since_ts == IF since_spec # <<>> THEN parse_time_point(since_spec, now_ts)
                    ELSE Returned(Minus(now_ts, DaySeconds))
        until_ts == IF until_spec # <<>> THEN parse_time_point(until_spec, now_ts)
                    ELSE Returned(now_ts)
    IN IF since_ts = ValueError \/ until_ts = ValueError THEN ValueError
       ELSE IF float_lt(until_ts.value, since_ts.value) THEN ValueError
       ELSE Returned([since |-> since_ts.value, until |-> until_ts.value])

\* ------------------------------------------------ store: lps/db.py tables
\* A process row: [id, pid, create_time, exe_path, name, cmdline, username,
\* ppid, first_seen, last_seen, ended, partial_meta].  The table is a set
\* of rows.  A sample row: [ts, process_id, dt_s, delta_cpu_s, eff_cores,
\* active]; eff_cores is the rational [num, den].  The sample table is the
\* sequence of rows in insertion order.  (The nullable rss/vms/io columns
\* are copied from the snapshot and read by nothing here; they are left out.)
EmptyTables == [process |-> {}, sample |-> <<>>]

\* (mutant) the conflict target is the pid alone
SamePid(r, pid, create_time) == r.pid = pid

\* UNIQUE(pid, create_time): the conflict target of the upsert
SameKey(r, pid, create_time) == r.pid = pid /\ r.create_time = create_time

\* INTEGER PRIMARY KEY without AUTOINCREMENT: one more than the largest id
NewId(process) == IF process = {} THEN 1 ELSE MaxOf({r.id : r \in process}) + 1

\* (mutant) the excluded (new) value wins when it is known
COALESCE_excluded(a, b) == IF b # None THEN b ELSE a

COALESCE(a, b) == IF a # None THEN a ELSE b

\* the DO UPDATE SET branch of the upsert; m holds the five metadata
\* arguments [exe_path, name, cmdline, username, ppid]
UpdatedRow(r, m, now_ts, partial_meta) ==
    [r EXCEPT !.last_seen = now_ts,
              !.exe_path = COALESCE(r.exe_path, m.exe_path),
              !.name = COALESCE(r.name, m.name),
              !.cmdline = COALESCE(r.cmdline, m.cmdline),
              !.username = COALESCE(r.username, m.username),
              !.ppid = COALESCE(r.ppid, m.ppid),
              !.partial_meta = IF r.partial_meta = 1 \/ partial_meta THEN 1 ELSE 0]

\* the VALUES branch of the upsert
InsertedRow(process, pid, create_time, m, now_ts, partial_meta) ==
    [id |-> NewId(process), pid |-> pid, create_time |-> create_time,
     exe_path |-> m.exe_path, name |-> m.name, cmdline |-> m.cmdline,
     username |-> m.username, ppid |-> m.ppid,
     first_seen |-> now_ts, last_seen |-> now_ts,
     ended |-> 0, partial_meta |-> IF partial_meta THEN 1 ELSE 0]

\* INSERT ... ON CONFLICT(pid, create_time) DO UPDATE: the process table after
UpsertProcess(process, pid, create_time, m, now_ts, partial_meta) ==
    IF \E r \in process : SameKey(r, pid, create_time)
    THEN {IF SameKey(r, pid, create_time)
          THEN UpdatedRow(r, m, now_ts, partial_meta)
          ELSE r : r \in process}
    ELSE process \cup {InsertedRow(process, pid, create_time, m, now_ts,
                                   partial_meta)}

\* SELECT id FROM process WHERE pid=? AND create_time=? (None: no such row,
\* where the code's assert would fail)
SelectId(process, pid, create_time) ==
    IF \E r \in process : r.pid = pid /\ r.create_time = create_time
    THEN (CHOOSE r \in process : r.pid = pid /\ r.create_time = create_time).id
    ELSE None

\* (mutant) rollback leaves the transaction's statements in place
rollback_noop(committed, view) == view

\* conn.rollback(): the connection's view returns to the committed tables
rollback(committed, view) == committed

\* DELETE FROM sample WHERE ts < cutoff_ts
prune_old_samples(sample, cutoff_ts) ==
    SelectSeq(sample, LAMBDA s : ~(s.ts < cutoff_ts))

\* UPDATE process SET ended=1, last_seen=? WHERE id IN (process_ids)
mark_process_ended(process, process_ids, last_seen_ts) ==
    {IF r.id \in process_ids
     THEN [r EXCEPT !.ended = 1, !.last_seen = last_seen_ts]
     ELSE r : r \in process}

\* ------------------------------------------- the process snapshot source
\* psutil.process_iter yields one info dict per pid, in increasing pid
\* order.  A field the OS denies is None.  An entry whose create_time is
\* None cannot be identified.
NoCpuTimes == [user |-> None, system |-> None]

Bodies(e) ==
    {[create_time |-> c, cpu_times |-> t, meta |-> m] :
        c \in e.ctimes \ {None}, t \in e.cpu_times, m \in e.metas}
    \cup (IF None \in e.ctimes
          THEN {[create_time |-> None, cpu_times |-> NoCpuTimes,
                 meta |-> CHOOSE m \in e.metas : TRUE]}
          ELSE {})

RECURSIVE InfoSeq(_, _)
InfoSeq(f, p) ==
    IF p > MaxPid THEN <<>>
    ELSE (IF p \in DOMAIN f
          THEN <<[pid |-> p, create_time |-> f[p].create_time,
                  cpu_times |-> f[p].cpu_times,
                  exe |-> f[p].meta.exe, name |-> f[p].meta.name,
                  cmdline |-> f[p].meta.cmdline,
                  username |-> f[p].meta.username, ppid |-> f[p].meta.ppid]>>
          ELSE <<>>) \o InfoSeq(f, p + 1)

Snapshots(e) ==
    {InfoSeq(f, 1) : f \in UNION {[S -> Bodies(e)] : S \in SUBSET e.pids}}

\* (mutant) a process whose creation time is unreadable is not skipped
IdentifiableAlways(info) == TRUE

\* lines 126-132: float(None) raises, the process is skipped
Identifiable(info) == info.create_time # None
KeyOf(info) == <<info.pid, info.create_time>>

\* The entries of a snapshot whose ProcessKey is resolvable, and their keys
\* (what the properties call identified; independent of the code above)
Resolvable(snapshot) ==
    {i \in 1..Len(snapshot) : snapshot[i].create_time # None}
IdentifiedKeys(snapshot) ==
    {<<snapshot[i].pid, snapshot[i].create_time>> : i \in Resolvable(snapshot)}


\* ------------------------------------------------------------ history
\* h records what happened, for the properties below; the program never
\* reads it.
\*   tick_kind     which path the current (or last) tick() call took
\*   tick_raised   whether that call raised
\*   raised_ever   whether any tick() call raised so far
\*   mark_failed   whether any mark-ended write failed so far
\*   tick_enum     the snapshot process_iter gave that call
\*   before        the committed tables when that call began
\*   observed      keys the sampler has resolved and upserted so far
\*   absent        per key, how many of the latest consecutive snapshots
\*                 lacked it (counted up to MissingLimit)
\*   prev_absent, observed_before   absent and observed when it began
\*   slept         whether run_loop called time.sleep before that call
\*   failed_ts     the ts_now of the steady ticks that raised
\*   failed_rows   how many rows the latest such tick had gathered
\*   pruned        whether that call ran prune_old_samples to its end
\*   base0         the monotonic time at which run_loop began
\*   tick_end, prev_end   the monotonic time at which that call, and the
\*                 call before it, ended
\*   prev_call     the monotonic time the call before it read when it began
\*   read          per key, the cumulative CPU of its latest observation
\*                 with readable CPU time
\*   kept          the same, counting only observations made by a bootstrap
\*                 call or by a steady tick that committed its rows
\*   baselines     _prev_cpu when that call began
\*   calls         how many calls of tick() have begun (counted up to
\*                 MaxTicks + 1)
\*   bootstrapped  whether a call of tick() has gone through the whole
\*                 bootstrap pass and returned
\*   bootstrapped_before   bootstrapped when that call began
\*   committed     the committed tables right after that call committed
\*                 its Sample rows
\*   marking       the record ids that call gave to mark_process_ended
\*   mark_failed_tick   whether the mark-ended write of that call failed
\*   interrupted_at   where the loop was when KeyboardInterrupt arrived
InitHistory ==
    [tick_kind |-> "none", tick_raised |-> FALSE, raised_ever |-> FALSE,
     mark_failed |-> FALSE,
     tick_enum |-> <<>>, before |-> EmptyTables, observed |-> {},
     observed_before |-> {},
     absent |-> [k \in Keys |-> 0], prev_absent |-> [k \in Keys |-> 0],
     slept |-> FALSE, failed_ts |-> {}, failed_rows |-> 0, pruned |-> FALSE,
     base0 |-> 0, tick_end |-> 0, prev_end |-> 0, prev_call |-> 0,
     read |-> EmptyMap, kept |-> EmptyMap, baselines |-> EmptyMap,
     calls |-> 0, bootstrapped |-> FALSE, bootstrapped_before |-> FALSE,
     committed |-> EmptyTables, marking |-> {}, mark_failed_tick |-> FALSE,
     interrupted_at |-> "none"]

\* read or kept after an observation: the cumulative CPU, when readable
Observe(m, info) ==
    IF info.create_time # None /\ info.cpu_times.user # None
       /\ info.cpu_times.system # None
    THEN Put(m, <<info.pid, info.create_time>>,
             info.cpu_times.user + info.cpu_times.system)
    ELSE m
RECURSIVE ObserveAll(_, _)
ObserveAll(m, entries) ==
    IF entries = <<>> THEN m
    ELSE ObserveAll(Observe(m, Head(entries)), Tail(entries))

AbsentAfter(absent, snapshot) ==
    [k \in Keys |-> IF k \in IdentifiedKeys(snapshot) THEN 0
                    ELSE IF absent[k] < MissingLimit THEN absent[k] + 1
                    ELSE absent[k]]

\* the entries of the current snapshot that the tick has gone through
Processed == SubSeq(h.tick_enum, 1, Len(h.tick_enum) - Len(enum))

\* ------------------------------------------------------------ initial state
\* Sampler.__init__ on a fresh database file: ensure_db created the empty
\* tables and committed.  interval_s is 1.0 s; active_threshold is the
\* fraction threshold.num / threshold.den of a CPU second per second.
InitFields(threshold, cpus) ==
    /\ db = EmptyTables
    /\ conn = EmptyTables
    /\ in_transaction = FALSE
    /\ interval_s = 4
    /\ active_threshold = threshold
    /\ cpu_count = cpus
    /\ prev_cpu = EmptyMap
    /\ procid = EmptyMap
    /\ missing_ticks = EmptyMap
    /\ last_mono = None
    /\ last_cleanup_ts = 0
    /\ base = 0 /\ tick_idx = 0 /\ target = 0 /\ now = 0 /\ sleep_s = 0
    /\ mono_now = 0 /\ ts_now = 0 /\ dt = 0
    /\ rows = <<>> /\ seen = EmptyMap /\ enum = <<>>
    /\ mono = 0
    /\ wall = 1000
    /\ failures = 0
    /\ h = InitHistory

\* cmd_run has parsed its arguments and made the Sampler; run_loop is next
InitSamplerWith(threshold, cpus) ==
    /\ InitFields(threshold, cpus)
    /\ pc = "start"
    /\ args = NoArgs
    /\ out = NoResult

\* lps run with its defaults: --active-threshold 0.005, one logical core
InitSampler == InitSamplerWith([num |-> 1, den |-> 200], 1)

KnownMeta == [exe |-> 1, name |-> 1, cmdline |-> 1, username |-> 1, ppid |-> 1]

\* What the snapshot source may answer in a run.  One run explores one
\* kind of trouble: CPU times the OS denies, pids that are reused, or
\* processes whose creation time cannot be read.
ReadableCpu == [user |-> 1, system |-> 1]
Profiles ==
    {[ctimes |-> {1}, cpu_times |-> {NoCpuTimes, ReadableCpu}],
     [ctimes |-> CTimes, cpu_times |-> {ReadableCpu}],
     [ctimes |-> {1, None}, cpu_times |-> {ReadableCpu}]}

\* Process churn; every tick takes 0.25 s and the wall clock gains 1 s.
Init ==
    /\ InitSampler
    /\ retention_s = 30 * 86400
    /\ \E p \in Profiles :
          env = [pids |-> Pids, ctimes |-> p.ctimes,
                 cpu_times |-> p.cpu_times, metas |-> {KnownMeta},
                 durs |-> {1}, wall_steps |-> {1}, oversleeps |-> {0}]

\* --------------------------------------------------------------- run_loop
\* (mutant) the target is one interval after the previous tick's end
drifting_target(b, idx, interval) == IF idx = 0 THEN b ELSE mono + interval

\* line 62: target = base + tick_idx * self.interval_s
aligned_target(b, idx, interval) == b + idx * interval

\* (mutant) the index is not advanced
same_tick_idx(idx) == idx

\* line 78: tick_idx += 1
next_tick_idx(idx) == idx + 1

\* base = time.monotonic(); tick_idx = 0
RunLoopStart ==
    /\ pc = "start"
    /\ base' = mono
    /\ tick_idx' = 0
    /\ pc' = "loop"
    /\ h' = [h EXCEPT !.base0 = mono, !.tick_end = mono, !.prev_end = mono]
    /\ UNCHANGED <<store_vars, param_vars, cli_vars, map_vars, last_mono, last_cleanup_ts,
                   target, now, sleep_s, tick_vars, mono, wall, env, failures>>

\* target = base + tick_idx * interval; sleep when target is ahead.
\* time.sleep returns at or after the requested time.
LoopTop ==
    /\ pc = "loop"
    /\ tick_idx < MaxTicks
    /\ target' = aligned_target(base, tick_idx, interval_s)
    /\ now' = mono
    /\ sleep_s' = target' - now'
    /\ IF sleep_s' > 0
       THEN \E o \in env.oversleeps : mono' = mono + sleep_s' + o
       ELSE mono' = mono
    /\ h' = [h EXCEPT !.slept = (sleep_s' > 0)]
    /\ pc' = "tick"
    /\ UNCHANGED <<store_vars, param_vars, cli_vars, map_vars, last_mono, last_cleanup_ts,
                   base, tick_idx, tick_vars, wall, env, failures>>

\* except Exception: roll back a transaction the failed tick left open
Except ==
    /\ pc = "except"
    /\ conn' = IF in_transaction THEN rollback(db, conn) ELSE conn
    /\ in_transaction' = FALSE
    /\ pc' = "next"
    /\ UNCHANGED <<db, param_vars, cli_vars, map_vars, last_mono, last_cleanup_ts,
                   loop_vars, tick_vars, mono, wall, env, failures, h>>

\* tick_idx += 1
NextTick ==
    /\ pc = "next"
    /\ tick_idx' = next_tick_idx(tick_idx)
    /\ pc' = "loop"
    /\ UNCHANGED <<store_vars, param_vars, cli_vars, map_vars, last_mono, last_cleanup_ts,
                   base, target, now, sleep_s, tick_vars, mono, wall, env,
                   failures, h>>

\* KeyboardInterrupt is not an Exception: wherever it arrives it leaves the
\* loop through the outer handler.
Interrupt ==
    /\ pc \notin {"start", "exited"}
    /\ pc' = "exited"
    /\ h' = [h EXCEPT !.interrupted_at = pc]
    /\ UNCHANGED <<store_vars, param_vars, cli_vars, map_vars, last_mono, last_cleanup_ts,
                   loop_vars, tick_vars, mono, wall, env, failures>>

\* ------------------------------------------------------------------- tick
\* Lines 87-104: read the clocks, roll back a transaction left open, then
\* take the bootstrap path or compute dt.  The call takes d of monotonic
\* time and w of wall-clock time, which the loop sees when it returns.
TickBegin ==
    /\ pc = "tick"
    /\ mono_now' = mono
    /\ ts_now' = wall
    /\ \E d \in env.durs : mono' = mono + d
    /\ \E w \in env.wall_steps : wall' = wall + w
    /\ conn' = IF in_transaction THEN rollback(db, conn) ELSE conn
    /\ in_transaction' = FALSE
    /\ \E snapshot \in Snapshots(env) :
          /\ enum' = snapshot
          /\ h' = [h EXCEPT !.tick_kind = IF last_mono = None THEN "bootstrap"
                                          ELSE "steady",
                            !.tick_raised = FALSE,
                            !.tick_enum = snapshot,
                            !.before = db,
                            !.pruned = FALSE,
                            !.prev_end = h.tick_end,
                            !.prev_call = mono_now,
                            !.baselines = prev_cpu,
                            !.calls = IF @ <= MaxTicks THEN @ + 1 ELSE @,
                            !.bootstrapped_before = h.bootstrapped,
                            !.committed = db,
                            !.marking = {},
                            !.mark_failed_tick = FALSE,
                            !.tick_end = mono',
                            !.prev_absent = h.absent,
                            !.observed_before = h.observed,
                            !.absent = AbsentAfter(h.absent, snapshot)]
    /\ IF last_mono = None
       THEN /\ pc' = "bootstrap"
            /\ UNCHANGED <<dt, last_mono, rows, seen>>
       ELSE /\ dt' = clamp(mono_now' - last_mono, DtLo, DtHi)
            /\ last_mono' = mono_now'
            /\ rows' = <<>>
            /\ seen' = EmptyMap
            /\ pc' = "enumerate"
    /\ UNCHANGED <<db, param_vars, cli_vars, map_vars, last_cleanup_ts, loop_vars, env,
                   failures>>

\* the metadata a loop body reads from info (lines 135-147, 271-282)
exe_path_of(info) == safe_str(info.exe)
name_of(info) == safe_str(info.name)
cmdline_of(info) == info.cmdline   \* a list is joined, "" stays ""
username_of(info) == safe_str(info.username)
ppid_of(info) == info.ppid

\* the process table after the upsert call of a loop body
Upserted(process, info, now_ts, partial_meta) ==
    UpsertProcess(process, info.pid, info.create_time,
                  [exe_path |-> exe_path_of(info), name |-> name_of(info),
                   cmdline |-> cmdline_of(info),
                   username |-> username_of(info), ppid |-> ppid_of(info)],
                  now_ts, partial_meta)

\* _bootstrap_baseline, one iteration of its for loop
BootstrapStep ==
    /\ pc = "bootstrap"
    /\ enum # <<>>
    /\ LET info == Head(enum)
           key == KeyOf(info)
           total_cpu == cpu_total_seconds(info.cpu_times)
           partial_meta == (total_cpu = None)
           process == Upserted(conn.process, info, ts_now, partial_meta)
           process_id == SelectId(process, info.pid, info.create_time)
       IN IF ~Identifiable(info)
          THEN UNCHANGED <<conn, in_transaction, procid, prev_cpu, h>>
          ELSE /\ conn' = [conn EXCEPT !.process = process]
               /\ in_transaction' = TRUE
               /\ procid' = Put(procid, key, process_id)
               /\ prev_cpu' = IF total_cpu # None
                              THEN Put(prev_cpu, key, total_cpu)
                              ELSE prev_cpu
               /\ h' = [h EXCEPT !.observed = @ \cup {key},
                                 !.read = Observe(@, info),
                                 !.kept = Observe(@, info)]
    /\ enum' = Tail(enum)
    /\ UNCHANGED <<db, param_vars, cli_vars, missing_ticks, last_mono, last_cleanup_ts,
                   pc, loop_vars, mono_now, ts_now, dt, rows, seen, mono, wall,
                   env, failures>>

\* (mutant) the bootstrap call returns without recording its time
BootstrapReturnKeepsNone ==
    /\ pc = "bootstrap"
    /\ enum = <<>>
    /\ h' = [h EXCEPT !.bootstrapped = TRUE]
    /\ pc' = "next"
    /\ UNCHANGED <<store_vars, param_vars, cli_vars, map_vars, last_mono,
                   last_cleanup_ts, loop_vars, tick_vars, mono, wall, env,
                   failures>>

\* tick, lines 98-100: the bootstrap loop is over
BootstrapReturn ==
    /\ pc = "bootstrap"
    /\ enum = <<>>
    /\ last_mono' = mono_now
    /\ h' = [h EXCEPT !.bootstrapped = TRUE]
    /\ pc' = "next"
    /\ UNCHANGED <<store_vars, param_vars, cli_vars, map_vars, last_cleanup_ts, loop_vars,
                   tick_vars, mono, wall, env, failures>>


\* (mutant) the difference is not floored at zero
delta_cpu_signed(prev_total, total_cpu) ==
    IF prev_total = None \/ total_cpu = None
    THEN 0
    ELSE total_cpu - prev_total

\* lines 195-204: the difference, the capped rate and the activity flag
delta_cpu_of(prev_total, total_cpu) ==
    IF prev_total = None \/ total_cpu = None
    THEN 0
    ELSE Max2(0, total_cpu - prev_total)

\* min(delta_cpu / dt, cpu_count * 1.5) as the fraction num/den
eff_cores_of(delta_cpu, dt_s, cpus) ==
    IF dt_s > 0
    THEN (IF 2 * delta_cpu > 3 * cpus * dt_s
          THEN [num |-> 3 * cpus, den |-> 2]
          ELSE [num |-> delta_cpu, den |-> dt_s])
    ELSE [num |-> 0, den |-> 1]

\* (mutant) the comparison is strict
active_strict(delta_cpu, dt_s, threshold) ==
    IF delta_cpu * threshold.den > threshold.num * dt_s THEN 1 ELSE 0

\* delta_cpu >= active_threshold * dt
active_of(delta_cpu, dt_s, threshold) ==
    IF delta_cpu * threshold.den >= threshold.num * dt_s THEN 1 ELSE 0

\* tick, one iteration of the for loop of lines 124-224
EnumerateStep ==
    /\ pc = "enumerate"
    /\ enum # <<>>
    /\ LET info == Head(enum)
           key == KeyOf(info)
           total_cpu == cpu_total_seconds(info.cpu_times)
           prev_total == IF total_cpu = None THEN None
                         ELSE Get(prev_cpu, key, None)
           partial_meta == (total_cpu = None)
           process == Upserted(conn.process, info, ts_now, partial_meta)
           process_id == SelectId(process, info.pid, info.create_time)
           delta_cpu == delta_cpu_of(prev_total, total_cpu)
           row == [ts |-> ts_now, process_id |-> process_id, dt_s |-> dt,
                   delta_cpu_s |-> delta_cpu,
                   eff_cores |-> eff_cores_of(delta_cpu, dt, cpu_count),
                   active |-> active_of(delta_cpu, dt, active_threshold)]
       IN IF ~Identifiable(info)
          THEN UNCHANGED <<conn, in_transaction, procid, rows, seen, h>>
          ELSE /\ conn' = [conn EXCEPT !.process = process]
               /\ in_transaction' = TRUE
               /\ procid' = Put(procid, key, process_id)
               /\ rows' = Append(rows, row)
               /\ seen' = IF total_cpu # None THEN Put(seen, key, total_cpu)
                          ELSE seen
               /\ h' = [h EXCEPT !.observed = @ \cup {key},
                                 !.read = Observe(@, info)]
    /\ enum' = Tail(enum)
    /\ UNCHANGED <<db, param_vars, cli_vars, prev_cpu, missing_ticks, last_mono,
                   last_cleanup_ts, pc, loop_vars, mono_now, ts_now, dt, mono,
                   wall, env, failures>>

\* process_iter or the upsert of the next process raises: the exception
\* leaves tick() (the statement that raised changed nothing)
TickRaise ==
    /\ pc \in {"bootstrap", "enumerate"}
    /\ enum # <<>>
    /\ failures < MaxFailures
    /\ failures' = failures + 1
    /\ h' = [h EXCEPT !.tick_raised = TRUE, !.raised_ever = TRUE,
                      !.failed_ts = IF pc = "enumerate" THEN @ \cup {ts_now}
                                    ELSE @,
                      !.failed_rows = IF pc = "enumerate" THEN Len(rows) ELSE @]
    /\ pc' = "except"
    /\ UNCHANGED <<store_vars, param_vars, cli_vars, map_vars, last_mono, last_cleanup_ts,
                   loop_vars, tick_vars, mono, wall, env>>

\* lines 227-229: batch_insert_samples and commit
WriteSamples ==
    /\ pc = "enumerate"
    /\ enum = <<>>
    /\ conn' = [conn EXCEPT !.sample = conn.sample \o rows]
    /\ db' = conn'
    /\ in_transaction' = FALSE
    /\ h' = [h EXCEPT !.kept = ObserveAll(@, Processed),
                      !.committed = db']
    /\ pc' = "lifecycle"
    /\ UNCHANGED <<param_vars, cli_vars, map_vars, last_mono, last_cleanup_ts, loop_vars,
                   tick_vars, mono, wall, env, failures>>

\* (mutant) the baselines are taken from seen although the write failed
WriteSamplesFailKeepsSeen ==
    /\ pc = "enumerate"
    /\ enum = <<>>
    /\ failures < MaxFailures
    /\ failures' = failures + 1
    /\ conn' = rollback(db, conn)
    /\ in_transaction' = FALSE
    /\ prev_cpu' = [key \in DOMAIN prev_cpu \cup DOMAIN seen |->
                       IF key \in DOMAIN seen THEN seen[key] ELSE prev_cpu[key]]
    /\ h' = [h EXCEPT !.tick_raised = TRUE, !.raised_ever = TRUE,
                      !.failed_ts = @ \cup {ts_now},
                      !.failed_rows = Len(rows)]
    /\ pc' = "except"
    /\ UNCHANGED <<db, param_vars, cli_vars, procid, missing_ticks, last_mono,
                   last_cleanup_ts, loop_vars, tick_vars, mono, wall, env>>

\* lines 230-232: the insert raised after j rows, or the commit raised
\* after all of them; rollback, re-raise
WriteSamplesFail ==
    /\ pc = "enumerate"
    /\ enum = <<>>
    /\ failures < MaxFailures
    /\ failures' = failures + 1
    /\ \E j \in 0..Len(rows) :
          conn' = rollback(db, [conn EXCEPT !.sample =
                                   conn.sample \o SubSeq(rows, 1, j)])
    /\ in_transaction' = FALSE
    /\ h' = [h EXCEPT !.tick_raised = TRUE, !.raised_ever = TRUE,
                      !.failed_ts = @ \cup {ts_now},
                      !.failed_rows = Len(rows)]
    /\ pc' = "except"
    /\ UNCHANGED <<db, param_vars, cli_vars, map_vars, last_mono, last_cleanup_ts,
                   loop_vars, tick_vars, mono, wall, env>>

\* _handle_missing_and_ended, lines 305-321: the maps after the two loops
\* and the ids collected for the mark-ended write
SeenKeys == DOMAIN seen
NotSeen == DOMAIN prev_cpu \ SeenKeys
MissingCount(key) == Get(DropAll(missing_ticks, SeenKeys), key, 0) + 1
EndedKeys == {key \in NotSeen : MissingCount(key) >= MissingLimit}
\* (mutant) a key that has a baseline keeps it; only new keys get one
prev_cpu_stale ==
    DropAll([key \in DOMAIN prev_cpu \cup SeenKeys |->
                IF key \in DOMAIN prev_cpu THEN prev_cpu[key] ELSE seen[key]],
            EndedKeys)

prev_cpu_after ==
    DropAll([key \in DOMAIN prev_cpu \cup SeenKeys |->
                IF key \in SeenKeys THEN seen[key] ELSE prev_cpu[key]],
            EndedKeys)
missing_ticks_after ==
    [key \in ((DOMAIN missing_ticks \ SeenKeys) \cup NotSeen) \ EndedKeys |->
        IF key \in NotSeen THEN MissingCount(key) ELSE missing_ticks[key]]
procid_after == DropAll(procid, EndedKeys)
ended_ids == {procid[key] : key \in EndedKeys \cap DOMAIN procid}

\* _handle_missing_and_ended when the mark-ended write (if any) commits
HandleMissingAndEnded ==
    /\ pc = "lifecycle"
    /\ prev_cpu' = prev_cpu_after
    /\ missing_ticks' = missing_ticks_after
    /\ procid' = procid_after
    /\ IF ended_ids # {}
       THEN /\ conn' = [conn EXCEPT !.process =
                           mark_process_ended(conn.process, ended_ids, ts_now)]
            /\ db' = conn'
            /\ in_transaction' = FALSE
       ELSE UNCHANGED store_vars
    /\ h' = [h EXCEPT !.marking = ended_ids]
    /\ pc' = "cleanup"
    /\ UNCHANGED <<param_vars, cli_vars, last_mono, last_cleanup_ts, loop_vars, tick_vars,
                   mono, wall, env, failures>>

\* (mutant) the failure of the mark-ended write leaves tick()
HandleMissingMarkRaises ==
    /\ pc = "lifecycle"
    /\ ended_ids # {}
    /\ failures < MaxFailures
    /\ failures' = failures + 1
    /\ prev_cpu' = prev_cpu_after
    /\ missing_ticks' = missing_ticks_after
    /\ procid' = procid_after
    /\ conn' = rollback(db, conn)
    /\ in_transaction' = FALSE
    /\ h' = [h EXCEPT !.mark_failed = TRUE, !.marking = ended_ids,
                      !.mark_failed_tick = TRUE, !.tick_raised = TRUE,
                      !.raised_ever = TRUE]
    /\ pc' = "except"
    /\ UNCHANGED <<db, param_vars, cli_vars, last_mono, last_cleanup_ts, loop_vars,
                   tick_vars, mono, wall, env>>

\* _handle_missing_and_ended when the mark-ended write raises: rollback,
\* warning, no retry
HandleMissingMarkFails ==
    /\ pc = "lifecycle"
    /\ ended_ids # {}
    /\ failures < MaxFailures
    /\ failures' = failures + 1
    /\ prev_cpu' = prev_cpu_after
    /\ missing_ticks' = missing_ticks_after
    /\ procid' = procid_after
    /\ conn' = rollback(db, conn)
    /\ in_transaction' = FALSE
    /\ h' = [h EXCEPT !.mark_failed = TRUE, !.marking = ended_ids,
                      !.mark_failed_tick = TRUE]
    /\ pc' = "cleanup"
    /\ UNCHANGED <<db, param_vars, cli_vars, last_mono, last_cleanup_ts, loop_vars,
                   tick_vars, mono, wall, env>>

\* lines 238-246: prune when a cleanup is due; the DELETE opens a
\* transaction and nothing commits it
CleanupDue == ts_now - last_cleanup_ts >= CleanupPeriod

Cleanup ==
    /\ pc = "cleanup"
    /\ IF CleanupDue
       THEN /\ conn' = [conn EXCEPT !.sample =
                           prune_old_samples(conn.sample, ts_now - retention_s)]
            /\ in_transaction' = TRUE
            /\ last_cleanup_ts' = ts_now
            /\ h' = [h EXCEPT !.pruned = TRUE]
       ELSE UNCHANGED <<conn, in_transaction, last_cleanup_ts, h>>
    /\ pc' = "next"
    /\ UNCHANGED <<db, param_vars, cli_vars, map_vars, last_mono, loop_vars, tick_vars,
                   mono, wall, env, failures>>

\* lines 244-246: prune_old_samples raised; warning, the timestamp advances
CleanupFails ==
    /\ pc = "cleanup"
    /\ CleanupDue
    /\ failures < MaxFailures
    /\ failures' = failures + 1
    /\ last_cleanup_ts' = ts_now
    /\ pc' = "next"
    /\ UNCHANGED <<store_vars, param_vars, cli_vars, map_vars, last_mono, loop_vars,
                   tick_vars, mono, wall, env, h>>

Next ==
    \/ RunLoopStart
    \/ LoopTop
    \/ TickBegin
    \/ BootstrapStep
    \/ BootstrapReturn
    \/ EnumerateStep
    \/ TickRaise
    \/ WriteSamples
    \/ WriteSamplesFail
    \/ HandleMissingAndEnded
    \/ HandleMissingMarkFails
    \/ Cleanup
    \/ CleanupFails
    \/ Except
    \/ NextTick
    \/ Interrupt

Spec == Init /\ [][Next]_vars

\* One process that comes and goes; the wall clock gains 1 s or 60 s per
\* tick and samples are kept for 30 s (lps run --retention 30s).
InitPrune ==
    /\ InitSampler
    /\ retention_s = 30
    /\ env = [pids |-> {1}, ctimes |-> {1}, cpu_times |-> {ReadableCpu},
              metas |-> {KnownMeta},
              durs |-> {1}, wall_steps |-> {1, 60}, oversleeps |-> {0}]

SpecPrune == InitPrune /\ [][Next]_vars

\* One process that comes and goes; a tick takes 0.25 s, 1 s (the whole
\* interval) or 2.25 s, and time.sleep may return 0.25 s late.
InitSched ==
    /\ InitSampler
    /\ retention_s = 30 * 86400
    /\ env = [pids |-> {1}, ctimes |-> {1}, cpu_times |-> {ReadableCpu},
              metas |-> {KnownMeta},
              durs |-> {1, 4, 9}, wall_steps |-> {1}, oversleeps |-> {0, 1}]

SpecSched == InitSched /\ [][Next]_vars

\* One process whose cumulative CPU time is 10.0 s, 10.5 s, 11.0 s or
\* 13.0 s, in any order, or cannot be read; the threshold is 0.005 (the
\* default) or 1.0 CPU second per second.
Cpu100 == [user |-> 30, system |-> 10]
Cpu105 == [user |-> 30, system |-> 12]
Cpu110 == [user |-> 32, system |-> 12]
Cpu130 == [user |-> 38, system |-> 14]
Thresholds == {[num |-> 1, den |-> 200], [num |-> 1, den |-> 1]}

InitCpu ==
    /\ \E threshold \in Thresholds : InitSamplerWith(threshold, 1)
    /\ retention_s = 30 * 86400
    /\ env = [pids |-> {1}, ctimes |-> {1},
              cpu_times |-> {NoCpuTimes, Cpu100, Cpu105, Cpu110, Cpu130},
              metas |-> {KnownMeta},
              durs |-> {1}, wall_steps |-> {1}, oversleeps |-> {0}]

SpecCpu == InitCpu /\ [][Next]_vars

\* Two processes that come and go; a tick takes a few milliseconds (0) or
\* 6 s, so that a tick may begin 6 s after the previous one and the ticks
\* after a long one begin back to back.
InitClock ==
    /\ InitSampler
    /\ retention_s = 30 * 86400
    /\ env = [pids |-> Pids, ctimes |-> {1}, cpu_times |-> {ReadableCpu},
              metas |-> {KnownMeta},
              durs |-> {0, 24}, wall_steps |-> {1}, oversleeps |-> {0}]

SpecClock == InitClock /\ [][Next]_vars

\* One process whose metadata the OS gives in full, denies in full, or
\* gives in part and with other values (an empty exe, an empty command
\* line), and whose CPU times it gives or denies.
DeniedMeta ==
    [exe |-> None, name |-> None, cmdline |-> None, username |-> None,
     ppid |-> None]
OtherMeta ==
    [exe |-> EmptyStr, name |-> 2, cmdline |-> EmptyStr, username |-> 2,
     ppid |-> None]

InitMeta ==
    /\ InitSampler
    /\ retention_s = 30 * 86400
    /\ env = [pids |-> {1}, ctimes |-> {1},
              cpu_times |-> {NoCpuTimes, ReadableCpu},
              metas |-> {KnownMeta, DeniedMeta, OtherMeta},
              durs |-> {1}, wall_steps |-> {1}, oversleeps |-> {0}]

SpecMeta == InitMeta /\ [][Next]_vars

\* ------------------------------------------- run_loop, running for ever
\* `while True` has no end.  The model counts MaxTicks iterations with
\* their clocks and their processes; from then on every process has exited
\* for good, the clocks are held (an iteration takes less than the clocks
\* resolve) and the iterations are no longer counted.
LoopTopAgain ==
    /\ pc = "loop"
    /\ tick_idx = MaxTicks
    /\ target' = aligned_target(base, tick_idx, interval_s)
    /\ now' = mono
    /\ sleep_s' = target' - now'
    /\ mono' = IF sleep_s' > 0 THEN mono + sleep_s' ELSE mono
    /\ env' = [env EXCEPT !.pids = {}, !.durs = {0}, !.wall_steps = {0}]
    /\ h' = [h EXCEPT !.slept = (sleep_s' > 0)]
    /\ pc' = "tick"
    /\ UNCHANGED <<store_vars, param_vars, cli_vars, map_vars, last_mono,
                   last_cleanup_ts, base, tick_idx, tick_vars, wall, failures>>

\* line 78 in an iteration that is no longer counted
NextTickAgain ==
    /\ pc = "next"
    /\ tick_idx = MaxTicks
    /\ pc' = "loop"
    /\ UNCHANGED <<store_vars, param_vars, cli_vars, map_vars, last_mono,
                   last_cleanup_ts, loop_vars, tick_vars, mono, wall, env,
                   failures, h>>

\* line 78 in a counted iteration
NextTickCounted == tick_idx < MaxTicks /\ NextTick

\* One process that comes and goes and whose CPU time is always readable.
InitLive ==
    /\ InitSampler
    /\ retention_s = 30 * 86400
    /\ env = [pids |-> {1}, ctimes |-> {1}, cpu_times |-> {ReadableCpu},
              metas |-> {KnownMeta},
              durs |-> {1}, wall_steps |-> {1}, oversleeps |-> {0}]

\* what the interpreter does next when nothing raises: the thread of
\* run_loop is never suspended for ever
Progress ==
    \/ RunLoopStart
    \/ LoopTop
    \/ LoopTopAgain
    \/ TickBegin
    \/ BootstrapStep
    \/ BootstrapReturn
    \/ EnumerateStep
    \/ WriteSamples
    \/ HandleMissingAndEnded
    \/ Cleanup
    \/ Except
    \/ NextTickCounted
    \/ NextTickAgain

\* the exceptions the environment may inject (at most MaxFailures)
Failure ==
    \/ TickRaise
    \/ WriteSamplesFail
    \/ HandleMissingMarkFails
    \/ CleanupFails

\* no interrupt arrives: the loop keeps ticking
NextLive == Progress \/ Failure

SpecLive == InitLive /\ [][NextLive]_vars /\ WF_vars(Progress)

\* ------------------------------------------------------------ src/cli.py
\* The strings of at most n characters of an alphabet
Strings(alphabet, n) == UNION {[1..k -> alphabet] : k \in 0..n}

\* lps top --window <spec>: a digit or two, the point, the blank, the sign,
\* two letters that are no unit, and the unit letters in both cases
DurationAlphabet ==
    {"0", "2", ".", " ", "-", "a", "b"} \cup UnitChars

\* cmd_top, line 102: window_s = parse_duration_to_seconds(args.window); a
\* ValueError ends the command, otherwise the query follows
CmdTop ==
    /\ pc = "cmd_top"
    /\ out' = parse_duration_to_seconds(args.window)
    /\ pc' = IF out' = ValueError THEN "cli_error" ELSE "top_query"
    /\ UNCHANGED <<store_vars, param_vars, map_vars, last_mono,
                   last_cleanup_ts, loop_vars, tick_vars, mono, wall, env,
                   failures, args, h>>

InitDuration ==
    /\ InitFields([num |-> 1, den |-> 200], 1)
    /\ retention_s = 30 * 86400
    /\ env = [pids |-> {}, ctimes |-> {}, cpu_times |-> {}, metas |-> {},
              durs |-> {}, wall_steps |-> {}, oversleeps |-> {}]
    /\ \E window \in Strings(DurationAlphabet, MaxLen) :
          args = [window |-> window]
    /\ out = NoResult
    /\ pc = "cmd_top"

NextDuration == CmdTop

SpecDuration == InitDuration /\ [][NextDuration]_vars

\* lps export csv --since <spec> --until <spec>: the letters of now, nan and
\* the hour, and a digit
WindowAlphabet == {"n", "o", "w", "a", "1", "h"}

\* cmd_export_csv, lines 91-92: now_ts = time.time(), then the window; a
\* ValueError ends the command before makedirs and the export
CmdExportCsv ==
    /\ pc = "cmd_export_csv"
    /\ out' = parse_since_until(args.since, args.until, [num |-> wall, den |-> 1])
    /\ pc' = IF out' = ValueError THEN "cli_error" ELSE "export"
    /\ UNCHANGED <<store_vars, param_vars, map_vars, last_mono,
                   last_cleanup_ts, loop_vars, tick_vars, mono, wall, env,
                   failures, args, h>>

\* cmd_export_csv, lines 95-97: the directory is made and the CSV written
\* for the window; the store is only read
DoExportCsv ==
    /\ pc = "export"
    /\ pc' = "exported"
    /\ UNCHANGED <<store_vars, param_vars, map_vars, last_mono,
                   last_cleanup_ts, loop_vars, tick_vars, mono, wall, env,
                   failures, args, out, h>>

InitWindow ==
    /\ InitFields([num |-> 1, den |-> 200], 1)
    /\ retention_s = 30 * 86400
    /\ env = [pids |-> {}, ctimes |-> {}, cpu_times |-> {}, metas |-> {},
              durs |-> {}, wall_steps |-> {}, oversleeps |-> {}]
    /\ \E since \in Strings(WindowAlphabet, MaxSpecLen) :
          \E until \in Strings(WindowAlphabet, MaxSpecLen) :
             args = [since |-> since, until |-> until]
    /\ out = NoResult
    /\ pc = "cmd_export_csv"

NextWindow ==
    \/ CmdExportCsv
    \/ DoExportCsv

SpecWindow == InitWindow /\ [][NextWindow]_vars


\* ================================================================ properties
\* What the properties read off a state.
TickOver == pc = "next"                      \* a tick() call has just ended
SteadyOver == TickOver /\ h.tick_kind = "steady"
NoFailureSoFar == ~h.raised_ever /\ ~h.mark_failed /\ failures = 0

\* the committed Sample rows the current tick added
SamplesWritten ==
    SubSeq(db.sample, Len(h.before.sample) + 1, Len(db.sample))

\* the committed ProcessRecords of a key
RecordsOf(process, key) ==
    {r \in process : r.pid = key[1] /\ r.create_time = key[2]}

\* the i-th resolvable entry of a snapshot, in enumeration order
RECURSIVE ResolvableSeq(_)
ResolvableSeq(snapshot) ==
    IF snapshot = <<>> THEN <<>>
    ELSE (IF Head(snapshot).create_time # None THEN <<Head(snapshot)>> ELSE <<>>)
         \o ResolvableSeq(Tail(snapshot))

\* one row per identified process, in order, each referencing its record
OneRowPerIdentified ==
    LET ident == ResolvableSeq(h.tick_enum)
    IN /\ Len(SamplesWritten) = Len(ident)
       /\ \A i \in 1..Len(ident) :
             \E r \in RecordsOf(db.process, <<ident[i].pid, ident[i].create_time>>) :
                SamplesWritten[i].process_id = r.id

\* C1 as stated: after every steady tick, whether it raised or not, the
\* number of Sample rows it committed equals the number of processes of its
\* snapshot whose ProcessKey was resolvable.
C1_EverySteadyTick ==
    SteadyOver => Len(SamplesWritten) = Cardinality(Resolvable(h.tick_enum))

\* C1 amended: after every steady tick that returned without raising, the
\* Sample rows it committed are exactly one row per process of its snapshot
\* whose ProcessKey was resolvable, each referencing that process's record,
\* and none for a process whose key could not be read; a steady tick that
\* raised committed no row.
C1_RowsPerIdentified ==
    SteadyOver => IF h.tick_raised THEN SamplesWritten = <<>>
                  ELSE OneRowPerIdentified

\* C1 witness: a steady tick returned having seen an identified process and
\* one whose key could not be read, and committed one row.
C1_Witness ==
    /\ SteadyOver /\ ~h.tick_raised
    /\ Len(h.tick_enum) = 2
    /\ Cardinality(Resolvable(h.tick_enum)) = 1
    /\ Len(SamplesWritten) = 1


\* C2 as stated, on runs where nothing raised: after a steady tick, every
\* key the sampler has observed that was absent from the snapshots of the
\* two latest ticks has a ProcessRecord with ended=1 in the store and is in
\* none of the three maps.
C2_EndedAfterTwoAbsences ==
    (SteadyOver /\ NoFailureSoFar) =>
        \A key \in h.observed :
            h.absent[key] >= MissingLimit =>
                /\ \E r \in RecordsOf(db.process, key) : r.ended = 1
                /\ key \notin DOMAIN prev_cpu
                /\ key \notin DOMAIN procid
                /\ key \notin DOMAIN missing_ticks

\* C3 as stated, on runs where nothing raised: after a steady tick, every
\* key of its snapshot has no missing-tick count, and a key observed
\* before that was absent from exactly the previous tick is still tracked
\* and its ProcessRecord has ended=0.
C3_SeenAgainStaysTracked ==
    (SteadyOver /\ NoFailureSoFar) =>
        \A key \in IdentifiedKeys(h.tick_enum) :
            /\ key \notin DOMAIN missing_ticks
            /\ (key \in h.observed_before /\ h.prev_absent[key] = 1) =>
                  /\ key \in DOMAIN procid
                  /\ RecordsOf(db.process, key) # {}
                  /\ \A r \in RecordsOf(db.process, key) : r.ended = 0

\* C5 as stated, on runs where nothing raised: after every tick, every key
\* the sampler has observed (at the bootstrap tick or later) has a
\* ProcessRecord, even in the sampler connection's own view of the store.
C5_RecordNeverRemoved ==
    (TickOver /\ NoFailureSoFar) =>
        \A key \in h.observed : RecordsOf(conn.process, key) # {}


\* C4 as stated, on runs where nothing raised: after a steady tick that ran
\* pruning with cutoff = ts_now - retention_s, the persisted store holds no
\* Sample with ts < cutoff and still holds every Sample with ts >= cutoff
\* that it held before.
C4_PruneDeletesOld ==
    (SteadyOver /\ h.pruned /\ NoFailureSoFar) =>
        /\ \A i \in 1..Len(db.sample) : db.sample[i].ts >= ts_now - retention_s
        /\ \A i \in 1..Len(h.before.sample) :
              h.before.sample[i].ts >= ts_now - retention_s =>
                  \E j \in 1..Len(db.sample) : db.sample[j] = h.before.sample[i]


\* the baseline map holds the cumulative CPU of every entry of a sequence
\* of snapshot entries that is identified and whose CPU time is readable
BaselineHolds(entries) ==
    \A i \in Resolvable(entries) :
        (entries[i].cpu_times.user # None /\ entries[i].cpu_times.system # None) =>
            LET key == <<entries[i].pid, entries[i].create_time>>
            IN /\ key \in DOMAIN prev_cpu
               /\ prev_cpu[key] = entries[i].cpu_times.user
                                  + entries[i].cpu_times.system

\* C6 as stated: after the first call to tick, whether it raised or not,
\* the Sample rows of the store are unchanged and the baseline map holds
\* the cumulative CPU of every identified process of the snapshot whose
\* CPU time was readable.
C6_FirstCallBaseline ==
    (TickOver /\ tick_idx = 0) =>
        /\ db.sample = h.before.sample
        /\ conn.sample = h.before.sample
        /\ BaselineHolds(h.tick_enum)

\* C6 amended: during and after a call to tick that takes the bootstrap
\* path the Sample rows of the store are unchanged, whether the call
\* returns or raises, and the baseline map holds the cumulative CPU of
\* every identified process with readable CPU time that the call went
\* through; when the call returns without raising that is every such
\* process of the snapshot.
C6_BootstrapBaseline ==
    h.tick_kind = "bootstrap" =>
        /\ db.sample = h.before.sample
        /\ conn.sample = h.before.sample
        /\ BaselineHolds(Processed)
        /\ (TickOver /\ ~h.tick_raised) => BaselineHolds(h.tick_enum)

\* C6 witness: a bootstrap tick returned having seen a process with readable
\* CPU time and one without; the first has a baseline, the second none.
C6_Witness ==
    /\ TickOver /\ h.tick_kind = "bootstrap" /\ ~h.tick_raised
    /\ Len(h.tick_enum) = 2
    /\ Cardinality(DOMAIN prev_cpu) = 1
    /\ Cardinality(DOMAIN procid) = 2

\* C7: the store never holds a Sample row of a steady tick that raised;
\* after such a tick the committed Sample rows are those from before it,
\* the exception handler leaves no open transaction, and every tick starts
\* its enumeration with no open transaction and a view equal to the store.
C7_FailedTickAllOrNothing ==
    /\ \A i \in 1..Len(db.sample) : db.sample[i].ts \notin h.failed_ts
    /\ (h.tick_kind = "steady" /\ h.tick_raised) => db.sample = h.before.sample
    /\ (TickOver /\ h.tick_raised) => (~in_transaction /\ conn = db)
    /\ (pc \in {"bootstrap", "enumerate"} /\ enum = h.tick_enum) =>
           (~in_transaction /\ conn = db)

\* C7 witness: the steady tick of index 1 raised having gathered two rows,
\* the tick after it has committed one row, and the store holds that row
\* alone.
C7_Witness ==
    /\ pc = "lifecycle"
    /\ tick_idx = 2
    /\ h.failed_ts # {}
    /\ h.failed_rows = 2
    /\ ~h.tick_raised
    /\ Len(SamplesWritten) = 1
    /\ Len(db.sample) = 1

\* C8: an exception raised inside tick takes control to the handler of
\* run_loop; from the handler the loop goes on with the same index, then
\* increments it by exactly one and is back at the top of the loop; the
\* loop is left only by an interrupt.
C8_LoopSurvivesFailedTick ==
    [][/\ (~h.tick_raised /\ h.tick_raised') => pc' = "except"
       /\ pc = "except" => (pc' = "exited" \/ (pc' = "next" /\ tick_idx' = tick_idx))
       /\ pc = "next" => (pc' = "exited"
                          \/ (pc' = "loop" /\ tick_idx' = tick_idx + 1))
       /\ (pc # "exited" /\ pc' = "exited") => Interrupt]_vars

\* C8 witness: the bootstrap tick and the tick after it both raised, and
\* the loop is about to run the tick of index 2.
C8_Witness ==
    /\ pc = "tick"
    /\ tick_idx = 2
    /\ failures = 2
    /\ h.tick_raised


\* a tick() call has begun and the loop has not yet moved to the next index
InTick ==
    pc \in {"bootstrap", "enumerate", "lifecycle", "cleanup", "except", "next"}

\* C9: the target of tick n is base + n * interval with base fixed when the
\* loop began, whatever earlier ticks did; tick n never starts before its
\* target; when the previous tick ended before the target the loop asks
\* time.sleep for exactly target - now and the tick starts when the sleep
\* returns; when the previous tick ended at or after the target there is no
\* sleep and the tick starts at once; a tick starts only after the previous
\* one has ended.
C9_AlignedTicks ==
    InTick =>
        /\ base = h.base0
        /\ target = h.base0 + tick_idx * interval_s
        /\ mono_now >= target
        /\ now = h.prev_end
        /\ mono_now >= h.prev_end
        /\ h.slept => /\ h.prev_end < target
                      /\ sleep_s = target - now
                      /\ (mono_now - target) \in env.oversleeps
        /\ ~h.slept => /\ h.prev_end >= target
                       /\ mono_now = h.prev_end

\* C9 witness: a tick overran its interval by more than one interval, the
\* next tick started at once without sleeping, well after its own target.
C9_Witness ==
    /\ InTick
    /\ tick_idx >= 1
    /\ ~h.slept
    /\ mono_now > target + interval_s

\* C10, state part: in the store and in the sampler connection's view, no
\* two ProcessRecords share a (pid, create_time) or an identifier.
OneRecordPerKey(process) ==
    \A r1, r2 \in process :
        ((r1.pid = r2.pid /\ r1.create_time = r2.create_time) \/ r1.id = r2.id)
            => r1 = r2

\* C10, step part: the upsert of an identified process leaves exactly one
\* record for its key and changes, adds and removes no record of any
\* other key.
UpsertLeavesOthers ==
    (pc \in {"bootstrap", "enumerate"} /\ enum # <<>> /\ enum' = Tail(enum)
     /\ Head(enum).create_time # None) =>
        LET key == <<Head(enum).pid, Head(enum).create_time>>
        IN /\ Cardinality(RecordsOf(conn'.process, key)) = 1
           /\ conn'.process \ RecordsOf(conn'.process, key)
                = conn.process \ RecordsOf(conn.process, key)

WithinCap(row) ==
    /\ row.eff_cores.den > 0
    /\ 2 * row.eff_cores.num <= 3 * cpu_count * row.eff_cores.den

\* C11: every Sample row in the store, and every row in the sampler
\* connection's view of it, has delta_cpu_s >= 0 and
\* eff_cores <= 1.5 * cpu_count, whatever the cumulative CPU values did
\* (fell back, or jumped after ticks in which the process was not read).
C11_DeltaAndRateBounded ==
    /\ \A i \in 1..Len(db.sample) :
          db.sample[i].delta_cpu_s >= 0 /\ WithinCap(db.sample[i])
    /\ \A i \in 1..Len(conn.sample) :
          conn.sample[i].delta_cpu_s >= 0 /\ WithinCap(conn.sample[i])

\* C11 witness: an earlier tick stored a row whose rate was cut to the cap
\* (the difference was more than 1.5 CPU seconds per second), and the tick
\* that has just written its row read a cumulative CPU value below the
\* baseline and stored a difference of 0.
C11_Witness ==
    /\ pc = "lifecycle"
    /\ \E i \in 1..Len(h.before.sample) :
          /\ 2 * h.before.sample[i].delta_cpu_s > 3 * cpu_count * h.before.sample[i].dt_s
          /\ h.before.sample[i].eff_cores = [num |-> 3 * cpu_count, den |-> 2]
    /\ \E key \in DOMAIN seen \cap DOMAIN prev_cpu : seen[key] < prev_cpu[key]
    /\ Len(SamplesWritten) = 1
    /\ SamplesWritten[1].delta_cpu_s = 0

\* delta_cpu_s >= active_threshold * dt_s for the row's own values
AtOrAboveThreshold(row) ==
    row.delta_cpu_s * active_threshold.den >= active_threshold.num * row.dt_s

\* C12: in every Sample row of the store, and of the sampler connection's
\* view of it, active is 0 or 1, and it is 1 exactly when
\* delta_cpu_s >= active_threshold * dt_s for that row's own dt_s
\* (equality gives 1).
C12_ActiveIffAtThreshold ==
    /\ \A i \in 1..Len(db.sample) :
          /\ db.sample[i].active \in {0, 1}
          /\ db.sample[i].active = 1 <=> AtOrAboveThreshold(db.sample[i])
    /\ \A i \in 1..Len(conn.sample) :
          /\ conn.sample[i].active \in {0, 1}
          /\ conn.sample[i].active = 1 <=> AtOrAboveThreshold(conn.sample[i])

\* C12 witness: the store holds a row exactly on the boundary
\* (delta_cpu_s = active_threshold * dt_s, not zero) with active = 1, and a
\* row with a positive difference below the boundary with active = 0.
C12_Witness ==
    /\ \E i \in 1..Len(db.sample) :
          /\ db.sample[i].delta_cpu_s > 0
          /\ db.sample[i].delta_cpu_s * active_threshold.den
                = active_threshold.num * db.sample[i].dt_s
          /\ db.sample[i].active = 1
    /\ \E i \in 1..Len(db.sample) :
          /\ db.sample[i].delta_cpu_s > 0
          /\ db.sample[i].active = 0

\* a steady tick has computed its dt and the loop has not moved on
InSteadyTick ==
    /\ h.tick_kind = "steady"
    /\ pc \in {"enumerate", "lifecycle", "cleanup", "except", "next"}

\* a gap brought into [0.25 s, 5.0 s]
ClampedGap(gap) ==
    IF gap < DtLo THEN DtLo ELSE IF gap > DtHi THEN DtHi ELSE gap

\* C13: the dt of a steady tick is the gap between the monotonic time it
\* read and the one the previous call of tick read, brought into
\* [0.25 s, 5.0 s]; every row the tick gathers and every row it commits
\* carries that dt; every row of the store has 0.25 s <= dt_s <= 5.0 s and
\* rows of the same tick (same ts) have the same dt_s.
C13_DtIsClampedGap ==
    /\ InSteadyTick =>
          /\ dt = ClampedGap(mono_now - h.prev_call)
          /\ \A i \in 1..Len(rows) : rows[i].dt_s = dt
          /\ \A i \in 1..Len(SamplesWritten) : SamplesWritten[i].dt_s = dt
    /\ \A i \in 1..Len(db.sample) :
          /\ db.sample[i].dt_s >= DtLo
          /\ db.sample[i].dt_s <= DtHi
          /\ \A j \in 1..Len(db.sample) :
                db.sample[i].ts = db.sample[j].ts =>
                    db.sample[i].dt_s = db.sample[j].dt_s

\* C13 witness: a tick that began 6 s after the previous one stored dt =
\* 5.0 s, and the tick that has just ended began less than 0.25 s after
\* the previous one and committed two rows with dt = 0.25 s.
C13_Witness ==
    /\ SteadyOver /\ ~h.tick_raised
    /\ mono_now - h.prev_call < DtLo
    /\ Len(SamplesWritten) = 2
    /\ SamplesWritten[1].dt_s = DtLo /\ SamplesWritten[2].dt_s = DtLo
    /\ \E i \in 1..Len(h.before.sample) : h.before.sample[i].dt_s = DtHi

\* the five metadata values an observation carries, as the sampler hands
\* them to the store: an empty exe, name or username counts as unknown
Blank(v) == IF v = EmptyStr THEN None ELSE v
ObservedMeta(info) ==
    [exe_path |-> Blank(info.exe), name |-> Blank(info.name),
     cmdline |-> info.cmdline, username |-> Blank(info.username),
     ppid |-> info.ppid]
MetaFields == {"exe_path", "name", "cmdline", "username", "ppid"}

\* a step that upserts the next process of the snapshot
UpsertStep ==
    /\ pc \in {"bootstrap", "enumerate"}
    /\ enum # <<>> /\ enum' = Tail(enum)
    /\ Head(enum).create_time # None

\* C14, for one record r before the upsert and r2 after it
NonDestructive(r, r2, observed, now_ts) ==
    /\ \A f \in MetaFields :
          r2[f] = IF r[f] # None THEN r[f] ELSE observed[f]
    /\ r2.first_seen = r.first_seen
    /\ r2.id = r.id
    /\ r2.ended = r.ended
    /\ r2.last_seen = now_ts

\* C14: an upsert of a process that has a ProcessRecord keeps every known
\* (non-null) value of exe_path, name, cmdline, username and ppid, fills
\* every null one with the observed value, leaves first_seen, id and ended
\* as they were and sets last_seen to the tick's timestamp.
C14_UpsertNonDestructive ==
    [][UpsertStep =>
        LET key == <<Head(enum).pid, Head(enum).create_time>>
        IN \A r \in RecordsOf(conn.process, key) :
              \E r2 \in RecordsOf(conn'.process, key) :
                 NonDestructive(r, r2, ObservedMeta(Head(enum)), ts_now)]_vars

\* C14 witness: the committed record of a process had a name and no
\* exe_path; the tick has just upserted an observation with another name
\* and a known exe: the name is the old one, the exe_path is filled, and
\* last_seen is later than first_seen.
C14_Witness ==
    /\ pc = "enumerate" /\ enum = <<>> /\ Len(h.tick_enum) = 1
    /\ LET info == h.tick_enum[1]
           key == <<info.pid, info.create_time>>
       IN /\ info.create_time # None
          /\ \E r \in RecordsOf(h.before.process, key) :
                \E r2 \in RecordsOf(conn.process, key) :
                   /\ r.name # None /\ info.name # None /\ info.name # r.name
                   /\ r2.name = r.name
                   /\ r.exe_path = None /\ r2.exe_path # None
                   /\ r2.first_seen = r.first_seen
                   /\ r2.last_seen > r2.first_seen

\* C15 as stated, on runs where nothing raised: after every tick, the
\* identifier cached for a key in the persisted-id map (the value the
\* latest upsert of that key returned) is the identifier of that key's
\* ProcessRecord, even in the sampler connection's own view of the store.
C15_CachedIdDenotesRecord ==
    (TickOver /\ NoFailureSoFar) =>
        \A key \in DOMAIN procid :
            \E r \in RecordsOf(conn.process, key) : r.id = procid[key]

\* some identity or metadata field of an observation could not be read
Unreadable(info) ==
    \/ info.exe = None \/ info.name = None \/ info.cmdline = None
    \/ info.username = None \/ info.ppid = None
    \/ info.cpu_times.user = None \/ info.cpu_times.system = None

\* C16 as stated: the upsert of an observation in which the executable
\* path, name, command line, user, parent pid or CPU times could not be
\* read leaves the process's record with partial_meta = 1, and an upsert of
\* a record whose partial_meta is 1 leaves it 1.
C16_PartialMetaWhenUnreadable ==
    [][UpsertStep =>
        LET key == <<Head(enum).pid, Head(enum).create_time>>
        IN /\ Unreadable(Head(enum)) =>
                \A r2 \in RecordsOf(conn'.process, key) : r2.partial_meta = 1
           /\ \A r \in RecordsOf(conn.process, key) :
                r.partial_meta = 1 =>
                    \A r2 \in RecordsOf(conn'.process, key) :
                        r2.partial_meta = 1]_vars

\* ---- the duration grammar, as the properties state it
AllIn(str, class) == \A i \in 1..Len(str) : str[i] \in class
Blanks == {" "}
DecimalDigits == {"0", "1", "2", "3", "4", "5", "6", "7", "8", "9"}

\* one or more digits, or digits, a point and digits
IsDecimal(str) ==
    \/ str # <<>> /\ AllIn(str, DecimalDigits)
    \/ \E p \in 2..(Len(str) - 1) :
          /\ str[p] = "."
          /\ AllIn(SubSeq(str, 1, p - 1), DecimalDigits)
          /\ AllIn(SubSeq(str, p + 1, Len(str)), DecimalDigits)

\* the value of a decimal as a fraction: the sum of its digits' places
RECURSIVE PlaceSum(_, _)
PlaceSum(digits, i) ==
    IF i > Len(digits) THEN 0
    ELSE DigitValue(digits[i]) * Pow10(Len(digits) - i) + PlaceSum(digits, i + 1)
DecimalValue(str) ==
    IF AllIn(str, DecimalDigits)
    THEN [num |-> PlaceSum(str, 1), den |-> 1]
    ELSE LET p == CHOOSE q \in 1..Len(str) : str[q] = "."
         IN [num |-> PlaceSum(SubSeq(str, 1, p - 1), 1) * Pow10(Len(str) - p)
                     + PlaceSum(SubSeq(str, p + 1, Len(str)), 1),
             den |-> Pow10(Len(str) - p)]

SecondsPer(letter) ==
    IF letter \in {"s", "S"} THEN 1
    ELSE IF letter \in {"m", "M"} THEN 60
    ELSE IF letter \in {"h", "H"} THEN 3600
    ELSE 86400
UnitLetters == {"s", "S", "m", "M", "h", "H", "d", "D"}

SameNumber(x, y) == x.den # 0 /\ y.den # 0 /\ x.num * y.den = y.num * x.den

\* spec is blanks, a decimal spec[i..k], exactly gap blanks, a unit letter
\* spec[j], blanks; and value is the decimal times the unit's seconds
DurationOf(spec, value, gaps) ==
    \E i \in 1..Len(spec) : \E k \in i..Len(spec) : \E j \in (k + 1)..Len(spec) :
        /\ AllIn(SubSeq(spec, 1, i - 1), Blanks)
        /\ IsDecimal(SubSeq(spec, i, k))
        /\ AllIn(SubSeq(spec, k + 1, j - 1), Blanks)
        /\ (j - k - 1) \in gaps
        /\ spec[j] \in UnitLetters
        /\ AllIn(SubSeq(spec, j + 1, Len(spec)), Blanks)
        /\ SameNumber(value, [num |-> DecimalValue(SubSeq(spec, i, k)).num
                                        * SecondsPer(spec[j]),
                              den |-> DecimalValue(SubSeq(spec, i, k)).den])
IsDuration(spec, gaps) ==
    \E i \in 1..Len(spec) : \E k \in i..Len(spec) : \E j \in (k + 1)..Len(spec) :
        /\ AllIn(SubSeq(spec, 1, i - 1), Blanks)
        /\ IsDecimal(SubSeq(spec, i, k))
        /\ AllIn(SubSeq(spec, k + 1, j - 1), Blanks)
        /\ (j - k - 1) \in gaps
        /\ spec[j] \in UnitLetters
        /\ AllIn(SubSeq(spec, j + 1, Len(spec)), Blanks)

TopParsed == pc \in {"top_query", "cli_error"}

\* C17 as stated: parse_duration_to_seconds returns for exactly the strings
\* that are blanks, a decimal immediately followed by a unit letter, blanks,
\* and returns the decimal times the unit's seconds; for every other string
\* it raises ValueError.
C17_UnitImmediatelyFollows ==
    TopParsed =>
        IF IsDuration(args.window, {0})
        THEN out.status = "returned" /\ DurationOf(args.window, out.value, {0})
        ELSE out = ValueError

\* C17 amended: parse_duration_to_seconds returns for exactly the strings
\* that are blanks, a decimal (digits, or digits, a point and digits), any
\* number of blanks, a unit letter among s, m, h, d in either case, blanks,
\* and returns the decimal times 1, 60, 3600 or 86400; for every other
\* string it raises ValueError and the command ends.
C17_DurationGrammar ==
    TopParsed =>
        IF IsDuration(args.window, 0..MaxLen)
        THEN /\ out.status = "returned"
             /\ DurationOf(args.window, out.value, 0..MaxLen)
             /\ pc = "top_query"
        ELSE out = ValueError /\ pc = "cli_error"

\* C17 witness: "2 h", a number separated from its unit, gave 7200.0
C17_Witness ==
    /\ pc = "top_query"
    /\ args.window = <<"2", " ", "h">>
    /\ out = Returned([num |-> 7200, den |-> 1])

\* ---- the window, as the properties state it
WallNow == [num |-> wall, den |-> 1]
AtLeast(x, y) == x.den # 0 /\ y.den # 0 /\ x.num * y.den >= y.num * x.den

\* a time point spec resolved against now: "now" is now, a duration is now
\* minus the duration, a bare number is that epoch
ResolvedAs(spec, value) ==
    /\ spec = <<"n", "o", "w">> => SameNumber(value, WallNow)
    /\ IsDuration(spec, 0..MaxSpecLen) =>
          /\ value.den # 0
          /\ DurationOf(spec, [num |-> wall * value.den - value.num,
                               den |-> value.den], 0..MaxSpecLen)
    /\ IsDecimal(spec) => SameNumber(value, DecimalValue(spec))
Resolvable1(spec) ==
    spec = <<"n", "o", "w">> \/ IsDuration(spec, 0..MaxSpecLen) \/ IsDecimal(spec)

ExportParsed == pc \in {"export", "exported", "cli_error"}

\* C18 as stated: when parse_since_until returns (since, until), both are
\* the specs resolved against the same now and until >= since; when it
\* raises, the command ends with no export; it returns whenever both specs
\* resolve and until >= since; since = "now" with until = "1h" raises, and
\* equal specs that resolve are accepted.
C18_WindowValidated ==
    ExportParsed =>
        /\ out.status = "returned" =>
              /\ AtLeast(out.value.until, out.value.since)
              /\ ResolvedAs(args.since, out.value.since)
              /\ ResolvedAs(args.until, out.value.until)
              /\ pc \in {"export", "exported"}
        /\ out.status # "returned" => out = ValueError /\ pc = "cli_error"
        /\ (args.since = <<"n", "o", "w">> /\ args.until = <<"1", "h">>) =>
              out = ValueError
        /\ (Resolvable1(args.since) /\ args.until = args.since) =>
              out.status = "returned"

\* a step of a steady tick that goes through an identified process
SteadyRowStep ==
    /\ pc = "enumerate"
    /\ enum # <<>> /\ enum' = Tail(enum)
    /\ Head(enum).create_time # None

\* C19 for such a step, latest being the record of each key's most recent
\* observation with readable CPU time: the step adds one row; its
\* delta_cpu_s is max(0, current - baseline) when the key has a baseline
\* and the current value is readable, and 0 otherwise; the baseline is the
\* value latest holds; unreadable CPU time leaves partial_meta = 1; and
\* baseline 10.0, current 10.5, dt 1.0, threshold 0.005 give delta 0.5,
\* eff_cores 0.5, active 1.
RowAsClaimed(latest) ==
    LET info == Head(enum)
        key == <<info.pid, info.create_time>>
        readable == info.cpu_times.user # None /\ info.cpu_times.system # None
        current == info.cpu_times.user + info.cpu_times.system
        based == readable /\ key \in DOMAIN prev_cpu
        row == rows'[Len(rows')]
    IN /\ Len(rows') = Len(rows) + 1
       /\ row.delta_cpu_s = IF based /\ current > prev_cpu[key]
                            THEN current - prev_cpu[key]
                            ELSE 0
       /\ based => (key \in DOMAIN latest /\ prev_cpu[key] = latest[key])
       /\ ~readable =>
             /\ RecordsOf(conn'.process, key) # {}
             /\ \A r \in RecordsOf(conn'.process, key) : r.partial_meta = 1
       /\ (based /\ prev_cpu[key] = 40 /\ current = 42 /\ dt = 4
           /\ active_threshold = [num |-> 1, den |-> 200]) =>
             /\ row.delta_cpu_s = 2
             /\ SameNumber(row.eff_cores, [num |-> 1, den |-> 2])
             /\ row.active = 1

\* C19 as stated: the baseline used is the cumulative CPU value of the
\* key's most recent observation with readable CPU time, in whatever tick
\* that observation was made.
C19_BaselineIsLatestObservation ==
    [][SteadyRowStep => RowAsClaimed(h.read)]_vars

\* C19 amended: the baseline used is the cumulative CPU value of the key's
\* most recent observation with readable CPU time made by a bootstrap call
\* or by a steady tick that committed its Sample rows; what a steady tick
\* that raised had read is not used.
C19_BaselineIsLatestKept ==
    [][SteadyRowStep => RowAsClaimed(h.kept)]_vars

\* C19 witness: after a tick that raised, a steady tick with dt = 1.0 s
\* and threshold 0.005 has read 10.5 s for a process whose baseline is
\* 10.0 s and gathered the row delta 0.5, eff_cores 0.5, active 1.
C19_Witness ==
    /\ pc = "enumerate" /\ enum = <<>> /\ Len(rows) = 1
    /\ h.raised_ever
    /\ dt = 4 /\ active_threshold = [num |-> 1, den |-> 200]
    /\ \E key \in DOMAIN seen \cap DOMAIN prev_cpu :
          prev_cpu[key] = 40 /\ seen[key] = 42
    /\ rows[1].delta_cpu_s = 2
    /\ rows[1].eff_cores = [num |-> 2, den |-> 4]
    /\ rows[1].active = 1

\* the batched write of a steady tick failed and was rolled back (the
\* enumeration had come to its end), and the loop has not moved on
WriteFailed ==
    /\ h.tick_kind = "steady" /\ h.tick_raised
    /\ enum = <<>>
    /\ pc \in {"except", "next"}

\* C20 as stated: after a steady tick whose sample write failed and was
\* rolled back, the baseline of every process seen in that tick is the
\* cumulative CPU value read in that tick.
C20_BaselinesDespiteFailedWrite ==
    WriteFailed =>
        \A key \in DOMAIN seen :
            key \in DOMAIN prev_cpu /\ prev_cpu[key] = seen[key]

\* C20 amended: the baselines are updated from seen only after the batched
\* write has committed: after a steady tick whose sample write failed the
\* baselines are what they were when the tick began, and after a steady
\* tick that returned the baseline of every process seen in it is the
\* value read in it.
C20_BaselinesOnlyAfterWrite ==
    /\ WriteFailed => prev_cpu = h.baselines
    /\ (SteadyOver /\ ~h.tick_raised) =>
          \A key \in DOMAIN seen :
              key \in DOMAIN prev_cpu /\ prev_cpu[key] = seen[key]

\* C20 witness: the write of a steady tick that had gathered a row failed;
\* the process's baseline is still the old value, not the one just read.
C20_Witness ==
    /\ WriteFailed
    /\ h.failed_rows = 1
    /\ \E key \in DOMAIN seen \cap DOMAIN prev_cpu : prev_cpu[key] # seen[key]


\* ---- the two logical states of the sampler
\* a call of tick() has begun and the loop has not yet moved past it
CallMade == h.calls >= 1

\* the steady path: dt was computed within its bounds; the bootstrap path:
\* the call has written no Sample row
PathTaken ==
    /\ h.tick_kind = "steady" => dt \in DtLo..DtHi
    /\ h.tick_kind = "bootstrap" =>
          /\ conn.sample = h.before.sample
          /\ db.sample = h.before.sample

\* C21 as stated: the first call of tick() takes the bootstrap path and
\* the second and every later call takes the steady path, whether or not
\* the first call raised.
C21_BootstrapExactlyFirstTick ==
    CallMade => (h.tick_kind = "bootstrap" <=> h.calls = 1)

\* C21 amended: the first call of tick() takes the bootstrap path, and a
\* later call takes the steady path (dt computed, samples gathered) exactly
\* when an earlier call went through the whole bootstrap pass and
\* returned; until then every call takes the bootstrap path again and
\* writes no Sample row.
C21_BootstrapUntilFirstReturn ==
    CallMade =>
        /\ h.tick_kind \in {"bootstrap", "steady"}
        /\ h.tick_kind = "steady" <=> h.bootstrapped_before
        /\ h.calls = 1 => h.tick_kind = "bootstrap"
        /\ PathTaken

\* The first call raised in its bootstrap pass, the second call took the
\* bootstrap path again and returned, and the third call is on the steady
\* path with its rows written.
C21_Witness ==
    /\ h.calls = 3
    /\ h.tick_kind = "steady"
    /\ h.bootstrapped_before
    /\ failures = 1
    /\ h.raised_ever
    /\ ~h.tick_raised
    /\ h.failed_ts = {}
    /\ pc = "lifecycle"
    /\ Len(rows) = 1


\* ---- a failed mark-ended write
\* the rows the current tick gathered are the latest committed Sample rows
RowsCommitted == h.committed.sample = h.before.sample \o rows

\* C22: when the mark-ended write of a tick fails, the tick's Sample rows
\* were committed before that write and are still in the committed store,
\* the call of tick() does not raise (it goes on to the cleanup and
\* returns), and no ProcessRecord is marked, neither in the committed
\* store nor in the sampler connection's view of it.
C22_MarkFailureNotFatal ==
    h.mark_failed_tick =>
        /\ RowsCommitted
        /\ db.sample = h.committed.sample
        /\ ~h.tick_raised
        /\ pc \in {"cleanup", "next", "loop", "tick", "exited"}
        /\ db.process = h.committed.process
        /\ conn.process = h.committed.process
        /\ ~in_transaction \/ h.pruned

\* The mark-ended write of a tick that committed a Sample row failed, the
\* call has returned, and a record it was to mark is in the store with
\* ended=0.
C22_Witness ==
    /\ h.mark_failed_tick
    /\ pc = "next"
    /\ Len(rows) >= 1
    /\ \E r \in db.process : r.id \in h.marking /\ r.ended = 0


\* ---- cancellation
\* where run_loop is between two calls of tick(): at the top of the loop,
\* after the sleep, or after a call has returned or been handled
BetweenTicks == {"loop", "tick", "next"}

\* the bookkeeping of a steady tick that committed its rows is applied:
\* every process seen has its baseline and no missing count
LifecycleApplied ==
    \A key \in DOMAIN seen :
        /\ key \in DOMAIN prev_cpu
        /\ prev_cpu[key] = seen[key]
        /\ key \notin DOMAIN missing_ticks

\* C23 as stated: when the loop has exited on an interrupt, the interrupt
\* arrived between two ticks, no transaction is open, and a steady tick
\* that committed its Sample rows has also applied its baselines and
\* missing counters.
C23_InterruptOnlyBetweenTicks ==
    pc = "exited" =>
        /\ h.interrupted_at \in BetweenTicks
        /\ ~in_transaction \/ h.pruned
        /\ (h.tick_kind = "steady" /\ ~h.tick_raised /\ rows # <<>>
              /\ db.sample = h.before.sample \o rows) => LifecycleApplied


\* ---- the ended flag
\* the records the mark-ended write of the current tick has just flagged
NewlyEnded ==
    {r \in db.process :
        /\ r.ended = 1
        /\ \E q \in h.committed.process : q.id = r.id /\ q.ended = 0}

\* C24 as stated: right after the lifecycle step of a steady tick, every
\* ProcessRecord it has just flagged ended=1 belongs to a ProcessKey that
\* was absent from the snapshots of the two latest ticks, this one
\* included.
C24_EndedOnlyWhenAbsentTwice ==
    (pc = "cleanup" /\ h.tick_kind = "steady") =>
        \A r \in NewlyEnded :
            h.absent[<<r.pid, r.create_time>>] >= MissingLimit


\* the committed records a Sample row refers to
RecordsReferenced(row) == {r \in db.process : r.id = row.process_id}

\* C25 as stated: when a steady tick has just committed its Sample rows
\* (and has not yet marked anything itself), none of those rows refers to
\* a ProcessRecord that has ended=1.
C25_NoSampleOnEndedRecord ==
    (pc = "lifecycle" /\ h.tick_kind = "steady") =>
        \A i \in 1..Len(rows) :
            \A r \in RecordsReferenced(rows[i]) : r.ended = 0


\* ---- a process that has exited for good
\* no process is enumerated from now on
AllGone == env.pids = {}

\* C26 as stated, for a loop that keeps ticking and in which at most
\* MaxFailures exceptions are raised: whenever every process has exited
\* for good and the committed store holds a ProcessRecord of a key, that
\* record eventually has ended=1.
C26_AbsentEventuallyEnded ==
    \A key \in Keys :
        (AllGone /\ RecordsOf(db.process, key) # {})
            ~> (\A r \in RecordsOf(db.process, key) : r.ended = 1)

====
